---- MODULE Spec2Model ----
(***************************************************************************)
(* A model of 2D_Graphing_Calc.c: the lexer's buffer discipline, the       *)
(* recursive split evaluator, the damped Newton solver and the grid        *)
(* renderer's per-seed line interpolation.                                 *)
(*                                                                         *)
(* Numbers.  A C double is modelled by a record [k, n, d]: k = "fin" is    *)
(* the rational n/d in lowest terms (d > 0), "inf"/"ninf"/"nan" are the    *)
(* IEEE specials, "opq" is a double the model does not compute (a          *)
(* transcendental value, a large power) and "crash" is a call that never   *)
(* returns (unbounded recursion).  Rounding is not modelled.               *)
(***************************************************************************)
EXTENDS Integers, Sequences, FiniteSets, TLC

VARIABLES
    tokens,      \* evaluator: the tokens the lexer wrote, tokens[0..n-1] of the C array
    stale,       \* evaluator: what every slot the lexer did not write holds
    xval,        \* evaluator: the bound x
    yval,        \* evaluator: the bound y
    result,      \* evaluator: [v |-> value returned, bad |-> a call left its slice]
    epc,         \* evaluator: "ready" | "done"
    y,           \* solver: the iterate, [nan |-> BOOLEAN, t |-> ticks]
    prev_y,      \* solver: the iterate before the current step
    iter,        \* solver: iterations done
    periodic,    \* solver: the equation text contains sin, cos or tan
    ret,         \* solver: the value returned
    spc,         \* solver: "loop" | "ret" | "done"
    lx_i,        \* lexer: characters of expr consumed
    lx_num_tokens, \* lexer: num_tokens
    lx_last,     \* lexer: the kind of the run just consumed
    lpc,         \* lexer: "scan" | "done" | "tokens_overrun" | "buffer_overrun"
    grid,        \* renderer: grid[row][column], a character
    j,           \* renderer: the column being sampled
    sub_j,       \* renderer: the sub-column offset being sampled
    k,           \* renderer: the seed (initial guess) being sampled
    has_prev,    \* renderer: has_prev[seed]
    prev_plot_y, \* renderer: prev_plot_y[seed]
    sample_col,  \* renderer, history: the column where prev_plot_y[seed] was sampled
    gap,         \* renderer, history: seed had an out-of-range row since that sample
    line,        \* renderer, history: the connecting line the last step drew, if any
    rpc,         \* renderer: "axes" | "plot" | "done"
    left_tokens, \* calls: what the slots of solve_equation's left_tokens hold
    junk,        \* calls: what the stack held before the first call
    probe,       \* calls, history: the equation side whose results are compared
    first_result, \* calls, history: what the first call on probe returned
    last_tokens, \* calls: the equation side of the last call
    last_result  \* calls: what the last call returned

evars == <<tokens, stale, xval, yval, result, epc>>
svars == <<y, prev_y, iter, periodic, ret, spc>>
lvars == <<lx_i, lx_num_tokens, lx_last, lpc>>
rvars == <<grid, j, sub_j, k, has_prev, prev_plot_y, sample_col, gap, line, rpc>>
cvars == <<left_tokens, junk, probe, first_result, last_tokens, last_result>>

vars == <<evars, svars, lvars, rvars, cvars>>

-----------------------------------------------------------------------------
(* Bounds of the model *)

MaxNum == 4          \* number literals 0..MaxNum (and the literal 8 of "8/4/2")
MaxLen == 4          \* every token sequence over SmallToks up to this length
TicksPerPi == 2      \* the solver's y is counted in ticks of PI / TicksPerPi
MaxY == 6            \* the solver's |y| stays within MaxY ticks
MaxStep == 3         \* a damped Newton step is at most MaxStep ticks
MaxEqLen == 3        \* the equation sides of successive calls have up to MaxEqLen tokens
MaxShortRun == 2     \* the lexer's runs have 1..MaxShortRun characters, or fill the buffer
GridWidth == 3       \* columns of the rendered grid (GRID_WIDTH is 80)
GridHeight == 4      \* rows of the rendered grid (GRID_HEIGHT is 20)
NumGuesses == 2      \* seeds per sample point (NUM_INITIAL_GUESSES is 40)
PointsPerColumn == 2 \* sub-column offsets (POINTS_PER_COLUMN is 10)

(* Constants of the program *)

MAX_EQUATION_LENGTH == 256
MAX_TOKENS == 100
MAX_ITER == 100
BUFFER_SIZE == 32    \* char buffer[32] and Token.str[32]

-----------------------------------------------------------------------------
(* Doubles *)

Fin(n, d) == [k |-> "fin", n |-> n, d |-> d]
Special(kind) == [k |-> kind, n |-> 0, d |-> 1]
Zero == Fin(0, 1)
One == Fin(1, 1)
PosInf == Special("inf")
NegInf == Special("ninf")
NotANumber == Special("nan")
Opaque == Special("opq")
Crash == Special("crash")

Abs(i) == IF i < 0 THEN -i ELSE i

RECURSIVE GCD(_, _)
GCD(a, b) == IF b = 0 THEN a ELSE GCD(b, a % b)

\* n/d (d # 0) in lowest terms with a positive denominator
Rat(n, d) ==
    LET g == GCD(Abs(n), Abs(d))
        s == IF d < 0 THEN -1 ELSE 1
    IN  Fin((s * n) \div g, (s * d) \div g)

Int2D(i) == Fin(i, 1)

\* -1, 0, 1 for a "fin", "inf" or "ninf" value
Sign(a) ==
    CASE a.k = "inf" -> 1
      [] a.k = "ninf" -> -1
      [] OTHER -> IF a.n > 0 THEN 1 ELSE IF a.n < 0 THEN -1 ELSE 0

IsInf(a) == a.k \in {"inf", "ninf"}
Signed(s) == IF s > 0 THEN PosInf ELSE NegInf

Neg(a) ==
    CASE a.k = "fin" -> Fin(-a.n, a.d)
      [] a.k = "inf" -> NegInf
      [] a.k = "ninf" -> PosInf
      [] OTHER -> a

\* what every IEEE operation does with an operand that is not a number of the model
Absorb(a, b) ==
    IF a.k = "crash" \/ b.k = "crash" THEN Crash
    ELSE IF a.k = "nan" \/ b.k = "nan" THEN NotANumber
    ELSE Opaque

Plain(a) == a.k \in {"fin", "inf", "ninf"}

DAdd(a, b) ==
    IF ~(Plain(a) /\ Plain(b)) THEN Absorb(a, b)
    ELSE IF IsInf(a) /\ IsInf(b) THEN (IF a.k = b.k THEN a ELSE NotANumber)
    ELSE IF IsInf(a) THEN a
    ELSE IF IsInf(b) THEN b
    ELSE Rat(a.n * b.d + b.n * a.d, a.d * b.d)

DSub(a, b) == DAdd(a, Neg(b))

DMul(a, b) ==
    IF ~(Plain(a) /\ Plain(b)) THEN Absorb(a, b)
    ELSE IF IsInf(a) \/ IsInf(b)
         THEN (IF Sign(a) * Sign(b) = 0 THEN NotANumber ELSE Signed(Sign(a) * Sign(b)))
    ELSE Rat(a.n * b.n, a.d * b.d)

\* IEEE a / b for b # 0
DDiv(a, b) ==
    IF ~(Plain(a) /\ Plain(b)) THEN Absorb(a, b)
    ELSE IF IsInf(a) /\ IsInf(b) THEN NotANumber
    ELSE IF IsInf(a) THEN Signed(Sign(a) * (IF Sign(b) < 0 THEN -1 ELSE 1))
    ELSE IF IsInf(b) THEN Zero
    ELSE Rat(a.n * b.d, a.d * b.n)

RECURSIVE IntPow(_, _)
IntPow(b, e) == IF e = 0 THEN 1 ELSE b * IntPow(b, e - 1)

\* pow(a, b): exact for an exponent 0, a base 0 or 1, and a small rational base
\* with an exponent 1..3; opaque otherwise
DPow(a, b) ==
    IF a.k = "crash" \/ b.k = "crash" THEN Crash
    ELSE IF b.k = "fin" /\ b.n = 0 THEN One
    ELSE IF a = One THEN One
    ELSE IF a.k = "nan" \/ b.k = "nan" THEN NotANumber
    ELSE IF a = Zero /\ Plain(b) /\ Sign(b) > 0 THEN Zero
    ELSE IF a.k = "fin" /\ b.k = "fin" /\ b.d = 1 /\ b.n \in 1..3
            /\ Abs(a.n) <= 16 /\ a.d <= 16
         THEN Rat(IntPow(a.n, b.n), IntPow(a.d, b.n))
    ELSE Opaque

\* sin, cos, tan, log10, log, exp at the arguments where the result is exact
MathFn(name, a) ==
    CASE a.k = "crash" -> Crash
      [] a.k = "nan" -> NotANumber
      [] a.k = "opq" -> Opaque
      [] a.k = "inf" -> (IF name \in {"log", "ln", "exp"} THEN PosInf ELSE NotANumber)
      [] a.k = "ninf" -> (IF name = "exp" THEN Zero ELSE NotANumber)
      [] OTHER ->
            IF a.n = 0
            THEN (CASE name \in {"sin", "tan"} -> Zero
                    [] name \in {"cos", "exp"} -> One
                    [] OTHER -> NegInf)
            ELSE IF name \in {"log", "ln"} /\ a.n < 0 THEN NotANumber
            ELSE IF name \in {"log", "ln"} /\ a = One THEN Zero
            ELSE Opaque

-----------------------------------------------------------------------------
(* Tokens *)

TokenType == {"NUMBER", "VARIABLE", "OPERATOR", "FUNCTION", "LPAREN", "RPAREN", "EQUALS"}

Token(type, str, value) == [type |-> type, str |-> str, value |-> value]

Num(v) == Token("NUMBER", "#", v)
Var(name) == Token("VARIABLE", name, 0)
Op(c) == Token("OPERATOR", c, 0)
Fn(name) == Token("FUNCTION", name, 0)
LP == Token("LPAREN", "(", 0)
RP == Token("RPAREN", ")", 0)
EQ == Token("EQUALS", "=", 0)

OpChars == {"+", "-", "*", "/", "^"}
FunctionNames == {"sin", "cos", "tan", "log", "ln", "exp"}

is_operator(c) == c \in OpChars

is_function(str) == str \in FunctionNames

\* get_precedence with the cases of "* /" and "+ -" exchanged
get_precedence_swapped(op) ==
    CASE op = "^" -> 3
      [] op \in {"*", "/"} -> 1
      [] op \in {"+", "-"} -> 2
      [] OTHER -> 0

get_precedence(op) ==
    CASE op = "^" -> 3
      [] op \in {"*", "/"} -> 2
      [] op \in {"+", "-"} -> 1
      [] OTHER -> 0

-----------------------------------------------------------------------------
(* evaluate_expression *)

\* The storage a call reads: toks is what the lexer wrote for this call, old
\* what an earlier call left in the slots after them, and st what any slot
\* beyond both holds.
Mem(toks, old, st) == [toks |-> toks, old |-> old, st |-> st]

Written(mem, i) == i >= 0 /\ i < Len(mem.toks)

ReadTok(mem, i) ==
    IF Written(mem, i) THEN mem.toks[i + 1]
    ELSE IF i >= 0 /\ i < Len(mem.old) THEN mem.old[i + 1]
    ELSE mem.st

SingleToken(token, x0, y0) ==
    IF token.type = "NUMBER" THEN Int2D(token.value)
    ELSE IF token.type = "VARIABLE" /\ token.str = "x" THEN x0
    ELSE IF token.type = "VARIABLE" /\ token.str = "y" THEN y0
    ELSE Zero

\* The scan for (i = num_tokens - 1; i >= 0; i--): the final min_prec_pos.
RECURSIVE ScanMinPrec(_, _, _, _, _, _)
ScanMinPrec(mem, s, i, paren_depth, min_prec, min_prec_pos) ==
    IF i < 0 THEN min_prec_pos
    ELSE LET token == ReadTok(mem, s + i) IN
         IF token.type = "RPAREN"
         THEN ScanMinPrec(mem, s, i - 1, paren_depth + 1, min_prec, min_prec_pos)
         ELSE IF token.type = "LPAREN"
         THEN ScanMinPrec(mem, s, i - 1, paren_depth - 1, min_prec, min_prec_pos)
         ELSE IF paren_depth = 0 /\ token.type = "OPERATOR"
                 /\ get_precedence(token.str) <= min_prec
         THEN ScanMinPrec(mem, s, i - 1, paren_depth, get_precedence(token.str), i)
         ELSE ScanMinPrec(mem, s, i - 1, paren_depth, min_prec, min_prec_pos)

MinPrecPos(mem, s, num_tokens) == ScanMinPrec(mem, s, num_tokens - 1, 0, 999, -1)

\* ApplyOp without the test right != 0: IEEE division by zero
ApplyOp_unguarded(c, left, right) ==
    CASE c = "+" -> DAdd(left, right)
      [] c = "-" -> DSub(left, right)
      [] c = "*" -> DMul(left, right)
      [] c = "/" -> (IF right # Zero THEN DDiv(left, right)
                     ELSE IF Plain(left) /\ Sign(left) # 0 THEN Signed(Sign(left))
                     ELSE Absorb(left, NotANumber))
      [] c = "^" -> DPow(left, right)
      [] OTHER -> Zero

ApplyOp(c, left, right) ==
    CASE c = "+" -> DAdd(left, right)
      [] c = "-" -> DSub(left, right)
      [] c = "*" -> DMul(left, right)
      [] c = "/" -> (IF left.k = "crash" \/ right.k = "crash" THEN Crash
                     ELSE IF right = Zero THEN PosInf
                     ELSE DDiv(left, right))
      [] c = "^" -> DPow(left, right)
      [] OTHER -> Zero

Ret(v, bad) == [v |-> v, bad |-> bad]

\* evaluate_expression(tokens + s, num_tokens, x, y).  bad: this call or one
\* below it was made with num_tokens < 0 (and so read tokens[0] outside its
\* slice).
RECURSIVE evaluate_expression(_, _, _, _, _)
evaluate_expression(mem, s, num_tokens, x0, y0) ==
    IF num_tokens = 0 THEN Ret(Zero, FALSE)
    ELSE IF num_tokens = 1 THEN Ret(SingleToken(ReadTok(mem, s), x0, y0), FALSE)
    ELSE
      LET min_prec_pos == MinPrecPos(mem, s, num_tokens)
          neg == num_tokens < 0
          first == ReadTok(mem, s)
          last == ReadTok(mem, s + num_tokens - 1)
      IN
      IF min_prec_pos = -1
      THEN
        IF first.type = "FUNCTION" /\ neg /\ ~Written(mem, s) /\ s >= Len(mem.old)
        THEN \* every slot from here on holds the same Function token: the
             \* recursion never ends
             Ret(Crash, TRUE)
        ELSE IF first.type = "FUNCTION" /\ is_function(first.str)
        THEN LET arg == evaluate_expression(mem, s + 2, num_tokens - 3, x0, y0)
             IN  Ret(MathFn(first.str, arg.v), neg \/ arg.bad \/ num_tokens - 3 < 0)
        ELSE IF first.type = "LPAREN" /\ last.type = "RPAREN"
        THEN LET inner == evaluate_expression(mem, s + 1, num_tokens - 2, x0, y0)
             IN  Ret(inner.v, neg \/ inner.bad)
        ELSE Ret(Zero, neg)
      ELSE
        LET left == evaluate_expression(mem, s, min_prec_pos, x0, y0)
            right == evaluate_expression(mem, s + min_prec_pos + 1,
                                         num_tokens - min_prec_pos - 1, x0, y0)
        IN  Ret(ApplyOp(ReadTok(mem, s + min_prec_pos).str, left.v, right.v),
                left.bad \/ right.bad)

-----------------------------------------------------------------------------
(* The evaluator's inputs *)

NumVals == (0..MaxNum) \cup {8}
Operands == {Num(v) : v \in NumVals}
Operators == {Op(c) : c \in OpChars}

AllToks ==
    Operands \cup Operators \cup {Var("x"), Var("y"), Var("z")}
    \cup {Fn(f) : f \in FunctionNames} \cup {LP, RP, EQ}

SmallToks == {Num(1), Num(2), Var("x"), Op("+"), Op("*"), Fn("ln"), LP, RP}

SeqsUpTo(S, n) == UNION {[1..len -> S] : len \in 0..n}

Flat3 == {<<a, o1, b, o2, c>> : a \in Operands, o1 \in Operators, b \in Operands,
                                  o2 \in Operators, c \in Operands}
ParenLeft == {<<LP, a, o1, b, RP, o2, c>> : a \in Operands, o1 \in Operators,
                  b \in Operands, o2 \in Operators, c \in Operands}

Args == Operands \cup {Var("x"), Var("y")}
Dangling == {<<o, a>> : o \in Operators, a \in Args}
            \cup {<<a, o>> : a \in Args, o \in Operators}
Calls == {<<Fn(f), LP, a, RP>> : f \in FunctionNames, a \in Args}
         \cup {<<Fn(f), a>> : f \in FunctionNames, a \in Args}

Inputs ==
    SeqsUpTo(SmallToks, MaxLen) \cup SeqsUpTo(AllToks, 1)
    \cup Flat3 \cup ParenLeft \cup Dangling \cup Calls

StaleToks == {Num(0), Fn("cos"), LP, RP}

-----------------------------------------------------------------------------
(* The evaluator as a state machine: one call on one token array *)

NoResult == Ret(Zero, FALSE)

EvalIdle ==
    /\ tokens = <<>> /\ stale = Num(0) /\ xval = Zero /\ yval = Zero
    /\ result = NoResult /\ epc = "idle"

SolveIdle ==
    /\ y = [nan |-> FALSE, t |-> 0] /\ prev_y = [nan |-> FALSE, t |-> 0]
    /\ iter = 0 /\ periodic = FALSE /\ ret = [nan |-> FALSE, t |-> 0] /\ spc = "idle"

LexIdle == lx_i = 0 /\ lx_num_tokens = 0 /\ lx_last = "none" /\ lpc = "idle"

NoLine ==
    [drawn |-> FALSE, seed |-> 0, col |-> 0, from |-> 0, to |-> 0, cells |-> <<>>,
     from_col |-> 0, gap_before |-> FALSE]

RenderIdle ==
    /\ grid = <<>> /\ j = 0 /\ sub_j = 0 /\ k = 0 /\ has_prev = <<>>
    /\ prev_plot_y = <<>> /\ sample_col = <<>> /\ gap = <<>> /\ line = NoLine
    /\ rpc = "idle"

NoCall == [called |-> FALSE, v |-> Zero]

CallsIdle ==
    /\ left_tokens = <<>> /\ junk = Num(0) /\ probe = <<>>
    /\ first_result = NoCall /\ last_tokens = <<>> /\ last_result = NoCall

EvalInit ==
    /\ SolveIdle /\ LexIdle /\ RenderIdle /\ CallsIdle
    /\ tokens \in Inputs
    /\ stale \in StaleToks
    /\ xval = Int2D(3)
    /\ yval = Int2D(5)
    /\ result = NoResult
    /\ epc = "ready"

Evaluate ==
    /\ epc = "ready"
    /\ result' = evaluate_expression(Mem(tokens, <<>>, stale), 0, Len(tokens), xval, yval)
    /\ epc' = "done"
    /\ UNCHANGED <<tokens, stale, xval, yval, svars, lvars, rvars, cvars>>

EvalNext == Evaluate

SpecEval == EvalInit /\ [][EvalNext]_vars

-----------------------------------------------------------------------------
(* Properties of the evaluator *)

Done == epc = "done"

LowOps == {"+", "-"}
HighOps == {"*", "/"}

TokVal(t) == SingleToken(t, xval, yval)

\* C1: for an unparenthesised a op1 b op2 c with op1 and op2 of equal
\* precedence (both + or -, or both * or /), evaluate returns (a op1 b) op2 c;
\* "8/4/2" gives 1.
C1_LeftAssociative ==
    (Done /\ tokens \in Flat3
          /\ (  {tokens[2].str, tokens[4].str} \subseteq LowOps
              \/ {tokens[2].str, tokens[4].str} \subseteq HighOps))
    => result.v = ApplyOp(tokens[4].str,
                          ApplyOp(tokens[2].str, TokVal(tokens[1]), TokVal(tokens[3])),
                          TokVal(tokens[5]))

\* positions lo..hi (0-based) of toks holding a token of the given type
CountType(toks, lo, hi, type) ==
    Cardinality({i \in lo..hi : toks[i + 1].type = type})

\* toks[lo..hi] is a well-nested parenthesis string
Balanced(toks, lo, hi) ==
    /\ \A i \in lo..hi :
          CountType(toks, lo, i, "LPAREN") >= CountType(toks, lo, i, "RPAREN")
    /\ CountType(toks, lo, hi, "LPAREN") = CountType(toks, lo, hi, "RPAREN")

\* position p lies strictly inside a matching pair of parentheses of toks
InsideParens(toks, p) ==
    \E l \in 0..(p - 1) : \E r \in (p + 1)..(Len(toks) - 1) :
        /\ toks[l + 1].type = "LPAREN"
        /\ toks[r + 1].type = "RPAREN"
        /\ Balanced(toks, l + 1, r - 1)

\* no "(" of toks is left unclosed: every suffix has at least as many ")" as "("
NoOpenParen(toks) ==
    \A i \in 0..(Len(toks) - 1) :
        CountType(toks, i, Len(toks) - 1, "RPAREN")
            >= CountType(toks, i, Len(toks) - 1, "LPAREN")

\* the split point evaluate chooses for the whole sequence (-1: none)
SplitPoint == MinPrecPos(Mem(tokens, <<>>, stale), 0, Len(tokens))

PrecedenceCases ==
    /\ (tokens \in Flat3 /\ tokens[2].str \in LowOps /\ tokens[4].str \in HighOps)
         => result.v = ApplyOp(tokens[2].str, TokVal(tokens[1]),
                               ApplyOp(tokens[4].str, TokVal(tokens[3]), TokVal(tokens[5])))
    /\ (tokens \in Flat3 /\ tokens[2].str \in HighOps /\ tokens[4].str \in LowOps)
         => result.v = ApplyOp(tokens[4].str,
                               ApplyOp(tokens[2].str, TokVal(tokens[1]), TokVal(tokens[3])),
                               TokVal(tokens[5]))
    /\ tokens \in ParenLeft
         => result.v = ApplyOp(tokens[6].str,
                               ApplyOp(tokens[3].str, TokVal(tokens[2]), TokVal(tokens[4])),
                               TokVal(tokens[7]))

\* C2 as stated: a+b*c gives a+(b*c), (a+b)*c gives (a+b)*c, and in no token
\* sequence is an operator inside parentheses chosen as the split point.
C2_Original ==
    Done => /\ PrecedenceCases
            /\ Len(tokens) >= 2 /\ SplitPoint # -1 => ~InsideParens(tokens, SplitPoint)

\* C2 as amended: the same, the last part for the sequences that leave no "("
\* unclosed.
C2_PrecedenceAndParens ==
    Done => /\ PrecedenceCases
            /\ Len(tokens) >= 2 /\ SplitPoint # -1 /\ NoOpenParen(tokens)
                 => ~InsideParens(tokens, SplitPoint)

C2_Witness ==
    /\ Done
    /\ tokens = <<LP, Num(2), Op("+"), Num(3), RP, Op("*"), Num(4)>>
    /\ result.v = Int2D(20)

InvalidSingle ==
    /\ Len(tokens) = 1
    /\ tokens[1].type # "NUMBER"
    /\ ~(tokens[1].type = "VARIABLE" /\ tokens[1].str \in {"x", "y"})

MissingRight == Len(tokens) = 2 /\ tokens[1] \in Args /\ tokens[2] \in Operators
MissingLeft == Len(tokens) = 2 /\ tokens[1] \in Operators /\ tokens[2] \in Args

MissingRightValue(c, a) ==
    CASE c = "+" -> DAdd(a, Zero)
      [] c = "-" -> DSub(a, Zero)
      [] c = "*" -> DMul(a, Zero)
      [] c = "/" -> (IF a.k = "crash" THEN Crash ELSE PosInf)
      [] OTHER -> DPow(a, Zero)

\* op b with the left operand missing, for b the value of the right side
MissingLeftValue(c, b) ==
    CASE c = "+" -> DAdd(Zero, b)
      [] c = "-" -> DSub(Zero, b)
      [] c = "*" -> DMul(Zero, b)
      [] c = "/" -> (IF b.k = "crash" THEN Crash
                     ELSE IF b = Zero THEN PosInf ELSE DDiv(Zero, b))
      [] OTHER -> DPow(Zero, b)

\* the value of the slice of tokens from position s on, num_tokens long
SliceValue(s, num_tokens) ==
    evaluate_expression(Mem(tokens, <<>>, stale), s, num_tokens, xval, yval).v

C9_CallsStayInSlice == Done => ~result.bad

-----------------------------------------------------------------------------
(* solve_equation: the iteration on y.  The solver's y is counted in ticks   *)
(* of PI / TicksPerPi; what one step subtracts, damping * f / df, depends    *)
(* on the equation and on x and is an input of every iteration.              *)

PI == TicksPerPi

Finite(t) == [nan |-> FALSE, t |-> t]
NaN == [nan |-> TRUE, t |-> 0]

\* C's fmod on whole ticks: the result has the sign of a
Fmod(a, b) == IF a >= 0 THEN a % b ELSE -((-a) % b)

\* y = fmod(y + PI, 2 * PI) - PI
Wrap(v) == IF v.nan THEN NaN ELSE Finite(Fmod(v.t + PI, 2 * PI) - PI)

\* fabs(a - b) > EPSILON: EPSILON (1e-10) is less than a tick, and the
\* comparison is false when either side is NaN
FarApart(a, b) == ~a.nan /\ ~b.nan /\ a.t # b.t

NewtonSteps == {Finite(d) : d \in (-MaxStep)..MaxStep} \cup {NaN}

Minus(a, b) == IF a.nan \/ b.nan THEN NaN ELSE Finite(a.t - b.t)

ReturnValue(n, v) == IF n < MAX_ITER THEN v ELSE NaN

SolveInit ==
    /\ EvalIdle /\ LexIdle /\ RenderIdle /\ CallsIdle
    /\ y \in {Finite(t) : t \in (-MaxY)..MaxY}
    /\ prev_y = y
    /\ iter = 0
    /\ periodic \in BOOLEAN
    /\ ret = Finite(0)
    /\ spc = "loop"

\* one pass of the do-while body and its loop test
NewtonIteration ==
    /\ spc = "loop"
    /\ \E step \in NewtonSteps :
         LET stepped == Minus(y, step)
             next_y == IF periodic THEN Wrap(stepped) ELSE stepped
         IN  /\ stepped.nan \/ Abs(stepped.t) <= MaxY
             /\ prev_y' = y
             /\ y' = next_y
             /\ iter' = iter + 1
             /\ spc' = IF FarApart(next_y, y) /\ iter + 1 < MAX_ITER
                       THEN "loop" ELSE "ret"
    /\ UNCHANGED <<periodic, ret, evars, lvars, rvars, cvars>>

SolveReturn ==
    /\ spc = "ret"
    /\ ret' = ReturnValue(iter, y)
    /\ spc' = "done"
    /\ UNCHANGED <<y, prev_y, iter, periodic, evars, lvars, rvars, cvars>>

SolveNext == NewtonIteration \/ SolveReturn

SpecSolve == SolveInit /\ [][SolveNext]_vars

\* the stop criterion |y - y_prev| <= EPSILON holds of the last iteration
Converged == ~y.nan /\ ~prev_y.nan /\ y.t = prev_y.t

\* C3: solve returns NotANumber only when no iteration met the stop criterion;
\* when an iteration k in 1..MAX_ITER meets it (k = MAX_ITER included) the loop
\* stops there and the converged y is returned.
C3_ConvergedIsReturned ==
    (spc = "done" /\ Converged) => (~ret.nan /\ ret = y)

\* C8: when the equation text contains sin, cos or tan, y lies in [-PI, PI)
\* after every iteration.
C8_WrappedIntoPeriod ==
    (periodic /\ iter >= 1 /\ ~y.nan) => (-PI <= y.t /\ y.t < PI)

-----------------------------------------------------------------------------
(* tokenize_expression: what it writes.  One step consumes one run of the    *)
(* input: a whitespace character, a run of digits and dots, a run of         *)
(* letters, a one-character token or an unrecognised character.  expr is a   *)
(* side of the equation, at most MAX_EQUATION_LENGTH - 1 characters.         *)

MaxExprLen == MAX_EQUATION_LENGTH - 1

RunLens == (1..MaxShortRun) \cup {BUFFER_SIZE - 1, BUFFER_SIZE}

\* where the step goes after a run of len characters and its terminator went
\* into buffer, and then into tokens[lx_num_tokens].str
AfterToken(len) ==
    IF len + 1 > BUFFER_SIZE THEN "buffer_overrun"
    ELSE IF lx_num_tokens >= MAX_TOKENS THEN "tokens_overrun"
    ELSE "scan"

LexInit ==
    /\ EvalIdle /\ SolveIdle /\ RenderIdle /\ CallsIdle
    /\ lx_i = 0
    /\ lx_num_tokens = 0
    /\ lx_last = "none"
    /\ lpc = "scan"

LexSpace ==
    /\ lpc = "scan"
    /\ lx_i + 1 <= MaxExprLen
    /\ lx_i' = lx_i + 1
    /\ lx_last' = "space"
    /\ UNCHANGED <<lx_num_tokens, lpc, evars, svars, rvars, cvars>>

LexNumber ==
    /\ lpc = "scan"
    /\ lx_last # "number"
    /\ \E len \in RunLens :
         /\ lx_i + len <= MaxExprLen
         /\ lx_i' = lx_i + len
         /\ lpc' = AfterToken(len)
    /\ lx_num_tokens' = lx_num_tokens + 1
    /\ lx_last' = "number"
    /\ UNCHANGED <<evars, svars, rvars, cvars>>

LexName ==
    /\ lpc = "scan"
    /\ lx_last # "name"
    /\ \E len \in RunLens :
         /\ lx_i + len <= MaxExprLen
         /\ lx_i' = lx_i + len
         /\ lpc' = AfterToken(len)
    /\ lx_num_tokens' = lx_num_tokens + 1
    /\ lx_last' = "name"
    /\ UNCHANGED <<evars, svars, rvars, cvars>>

\* "=", "(", ")" or an operator
LexSymbol ==
    /\ lpc = "scan"
    /\ lx_i + 1 <= MaxExprLen
    /\ lx_i' = lx_i + 1
    /\ lpc' = AfterToken(1)
    /\ lx_num_tokens' = lx_num_tokens + 1
    /\ lx_last' = "symbol"
    /\ UNCHANGED <<evars, svars, rvars, cvars>>

LexUnrecognized ==
    /\ lpc = "scan"
    /\ lx_i + 1 <= MaxExprLen
    /\ lx_i' = lx_i + 1
    /\ lx_last' = "other"
    /\ UNCHANGED <<lx_num_tokens, lpc, evars, svars, rvars, cvars>>

LexEnd ==
    /\ lpc = "scan"
    /\ lpc' = "done"
    /\ UNCHANGED <<lx_i, lx_num_tokens, lx_last, evars, svars, rvars, cvars>>

LexNext == LexSpace \/ LexNumber \/ LexName \/ LexSymbol \/ LexUnrecognized \/ LexEnd

SpecLex == LexInit /\ [][LexNext]_vars

\* C10: for every equation of up to MAX_EQUATION_LENGTH - 1 characters,
\* tokenize writes only the token slots below MAX_TOKENS and copies at most
\* BUFFER_SIZE - 1 characters and a terminator into buffer and Token.str.
C10_WritesStayInBounds == lpc \notin {"tokens_overrun", "buffer_overrun"}

-----------------------------------------------------------------------------
(* plot_equation: the grid and the per-seed interpolation state.  What       *)
(* solve_equation returns for a sample, and so the row it projects to, is    *)
(* an input of every sample step.  The view is the initial one              *)
(* (zoom 1, offsets 0), which puts the axes in the middle of the grid.       *)

Rows == 0..(GridHeight - 1)
Cols == 0..(GridWidth - 1)
Seeds == 0..(NumGuesses - 1)

center_x == GridWidth \div 2
center_y == GridHeight \div 2

Blank == [i \in Rows |-> [c \in Cols |-> " "]]

\* the two loops that draw the axes
AxesGrid ==
    [i \in Rows |-> [c \in Cols |->
        IF c = center_x THEN (IF i % 2 = 0 THEN "+" ELSE "|")
        ELSE IF i = center_y THEN (IF c % 2 = 0 THEN "+" ELSE "-")
        ELSE " "]]

\* the cells <<x, y>> the line loop visits, in order:
\* for (x = x; x <= x_end; x++) { visit; err -= dy; if (err < 0) { y += sy; err += dx; } }
RECURSIVE LineLoop(_, _, _, _, _, _, _)
LineLoop(bx, x_end, by, err, dx, dy, sy) ==
    IF bx > x_end THEN <<>>
    ELSE LET e1 == err - dy IN
         <<(<<bx, by>>)>> \o
         (IF e1 < 0 THEN LineLoop(bx + 1, x_end, by + sy, e1 + dx, dx, dy, sy)
          ELSE LineLoop(bx + 1, x_end, by, e1, dx, dy, sy))

\* the line from (x_start, y_start) to (x_end, y_end)
Bresenham(x_start, y_start, x_end, y_end) ==
    LET dx == x_end - x_start
        dy == Abs(y_end - y_start)
        sy == IF y_start < y_end THEN 1 ELSE -1
    IN  LineLoop(x_start, x_end, y_start, dx \div 2, dx, dy, sy)

InGrid(cell) == cell[1] \in Cols /\ cell[2] \in Rows

\* grid after the line loop went over cells: "*" into the blank cells it visits
DrawCells(g, cells) ==
    [i \in Rows |-> [c \in Cols |->
        IF g[i][c] = " " /\ (\E n \in 1..Len(cells) : InGrid(cells[n]) /\ cells[n] = <<c, i>>)
        THEN "*" ELSE g[i][c]]]

\* the loop counters after one pass of the innermost body
Advance ==
    IF k + 1 < NumGuesses THEN k' = k + 1 /\ UNCHANGED <<sub_j, j>>
    ELSE /\ k' = 0
         /\ IF sub_j + 1 < PointsPerColumn THEN sub_j' = sub_j + 1 /\ UNCHANGED j
            ELSE sub_j' = 0 /\ j' = j + 1

RenderInit ==
    /\ EvalIdle /\ SolveIdle /\ LexIdle /\ CallsIdle
    /\ grid = Blank
    /\ j = 0 /\ sub_j = 0 /\ k = 0
    /\ has_prev = [s \in Seeds |-> FALSE]
    /\ prev_plot_y = [s \in Seeds |-> -1]
    /\ sample_col = [s \in Seeds |-> -1]
    /\ gap = [s \in Seeds |-> FALSE]
    /\ line = NoLine
    /\ rpc = "axes"

DrawAxes ==
    /\ rpc = "axes"
    /\ grid' = AxesGrid
    /\ rpc' = "plot"
    /\ UNCHANGED <<j, sub_j, k, has_prev, prev_plot_y, sample_col, gap, line,
                   evars, svars, lvars, cvars>>

\* solve_equation returned NaN or an infinity: nothing is drawn or stored
SampleFails ==
    /\ rpc = "plot" /\ j < GridWidth
    /\ Advance
    /\ line' = NoLine
    /\ UNCHANGED <<grid, has_prev, prev_plot_y, sample_col, gap, rpc,
                   evars, svars, lvars, cvars>>

\* solve_equation returned a finite y that projects to a row outside the grid
SampleOutOfRange ==
    /\ rpc = "plot" /\ j < GridWidth
    /\ Advance
    /\ gap' = [gap EXCEPT ![k] = TRUE]
    /\ line' = NoLine
    /\ UNCHANGED <<grid, has_prev, prev_plot_y, sample_col, rpc, evars, svars, lvars, cvars>>

\* solve_equation returned a finite y that projects to row plot_y of the grid
SampleInRange ==
    /\ rpc = "plot" /\ j < GridWidth
    /\ \E plot_y \in Rows :
         LET marked == [grid EXCEPT ![plot_y][j] = "*"]
             connect == has_prev[k] /\ j > 0
             cells == Bresenham(j - 1, prev_plot_y[k], j, plot_y)
         IN  /\ grid' = IF connect THEN DrawCells(marked, cells) ELSE marked
             /\ line' = IF connect
                        THEN [drawn |-> TRUE, seed |-> k, col |-> j,
                              from |-> prev_plot_y[k], to |-> plot_y, cells |-> cells,
                              from_col |-> sample_col[k], gap_before |-> gap[k]]
                        ELSE NoLine
             /\ prev_plot_y' = [prev_plot_y EXCEPT ![k] = plot_y]
    /\ has_prev' = [has_prev EXCEPT ![k] = TRUE]
    /\ sample_col' = [sample_col EXCEPT ![k] = j]
    /\ gap' = [gap EXCEPT ![k] = FALSE]
    /\ Advance
    /\ UNCHANGED <<rpc, evars, svars, lvars, cvars>>

\* the column loop is over: the grid is printed
PrintGrid ==
    /\ rpc = "plot" /\ j = GridWidth
    /\ rpc' = "done"
    /\ line' = NoLine
    /\ UNCHANGED <<grid, j, sub_j, k, has_prev, prev_plot_y, sample_col, gap,
                   evars, svars, lvars, cvars>>

RenderNext == DrawAxes \/ SampleFails \/ SampleOutOfRange \/ SampleInRange \/ PrintGrid

SpecRender == RenderInit /\ [][RenderNext]_vars

\* C6: a connecting line is drawn for a seed at column j only if the seed's
\* stored previous sample is an in-range sample taken in column j - 1 with no
\* out-of-range sample of the seed since; an out-of-range sample clears
\* has_prev of its seed.
C6_NoLineAcrossGap ==
    /\ line.drawn => (line.from_col = line.col - 1 /\ ~line.gap_before)
    /\ \A s \in DOMAIN gap : gap[s] => ~has_prev[s]

Adjacent(a, b) == Abs(a[1] - b[1]) <= 1 /\ Abs(a[2] - b[2]) <= 1

Between(a, b) == {r \in Rows : (a < r /\ r < b) \/ (b < r /\ r < a)}

\* C7: the cells the line loop visits form a connected path from
\* (j - 1, r0) to (j, r1), so every row strictly between r0 and r1 has a
\* visited cell.
C7_LineIsConnected ==
    line.drawn =>
      LET cells == line.cells IN
      /\ cells[1] = <<line.col - 1, line.from>>
      /\ cells[Len(cells)] = <<line.col, line.to>>
      /\ \A n \in 1..(Len(cells) - 1) : Adjacent(cells[n], cells[n + 1])
      /\ \A r \in Between(line.from, line.to) :
            \E n \in 1..Len(cells) : cells[n][2] = r

-----------------------------------------------------------------------------
(* Successive calls of solve_equation.  left_tokens is an automatic array:   *)
(* it is not initialised, every call has it in the same stack slots, and     *)
(* tokenize_expression writes only the first num_tokens of them.  A step is  *)
(* one call: the lexer writes the left side's tokens and evaluate runs on    *)
(* them with x = 3, y = 5.                                                   *)

CallToks == {Num(1), Fn("ln"), Fn("cos")}
CallEqs == SeqsUpTo(CallToks, MaxEqLen)

\* the slots after tokenize_expression wrote toks into them
Overwrite(slots, toks) ==
    IF Len(toks) >= Len(slots) THEN toks
    ELSE toks \o SubSeq(slots, Len(toks) + 1, Len(slots))

CallsInit ==
    /\ EvalIdle /\ SolveIdle /\ LexIdle /\ RenderIdle
    /\ left_tokens = <<>>
    /\ junk \in StaleToks
    /\ probe \in CallEqs
    /\ first_result = NoCall
    /\ last_tokens = <<>>
    /\ last_result = NoCall

SolveCall ==
    /\ \E toks \in CallEqs :
         LET r == evaluate_expression(Mem(toks, left_tokens, junk), 0, Len(toks),
                                      Int2D(3), Int2D(5))
         IN  /\ left_tokens' = Overwrite(left_tokens, toks)
             /\ last_tokens' = toks
             /\ last_result' = [called |-> TRUE, v |-> r.v]
             /\ first_result' = IF toks = probe /\ ~first_result.called
                                THEN [called |-> TRUE, v |-> r.v]
                                ELSE first_result
    /\ UNCHANGED <<junk, probe, evars, svars, lvars, rvars>>

CallsNext == SolveCall

SpecCalls == CallsInit /\ [][CallsNext]_vars

\* C5: a call with the same equation and the same x and y returns what the
\* first such call returned, whatever calls were made in between: nothing a
\* call reads was left by an earlier call or is storage the call did not
\* write.  (An opaque value is not compared.)
C5_SameInputSameResult ==
    (last_tokens = probe /\ last_result.called /\ first_result.called
        /\ last_result.v.k # "opq" /\ first_result.v.k # "opq")
    => last_result.v = first_result.v

====
